---------------------------- MODULE Spec2Model ----------------------------
(***************************************************************************)
(* beeziptoo: the byte-level transforms of the compressor (src/rle.rs,     *)
(* src/rle2.rs) and the pipeline that wires them (src/lib.rs).             *)
(*                                                                         *)
(* A byte buffer (&[u8], Vec<u8>) is a sequence over 0..255.  Rust slices  *)
(* are 0-based; a slice index i of the source is i + 1 here.               *)
(***************************************************************************)
EXTENDS Integers, Sequences, FiniteSets, TLC

VARIABLES
    pc,                      \* position of the caller: which call has returned
    debug_build,             \* TRUE: overflow checks and debug_assert! are on
    data,                    \* the buffer handed to the encoder under test
    rle_data,                \* rle::encode's result / compress's rle_data
    length_bytes,            \* every length byte rle::encode_run pushed, in order
    un_rle_data,             \* rle::decode's result (a Result)
    rle2_data,               \* rle2::encode's result: a sequence of Symbols
    encode_run_calls,        \* the length of every rle2::encode_run call, in order
    un_rle2,                 \* rle2::decode's result, or the panic it ended in
    decode_run_calls,        \* the slice of every rle2::decode_run call, in order
    burrows_wheeler_data,    \* compress: burrows_wheeler::encode's result
    move_to_front_data,      \* compress: move_to_front::encode's result
    output,                  \* compress: the buffer under the cursor it returns
    all_data,                \* decompress: the bytes read from its source
    un_move_to_front_data,   \* decompress: move_to_front::decode's result
    un_burrows_wheeler_data, \* decompress: burrows_wheeler::decode's result (a Result)
    decompressed             \* decompress: what it returns (a Result)

rle1_vars == <<rle_data, length_bytes, un_rle_data>>

rle2_vars == <<rle2_data, encode_run_calls, un_rle2, decode_run_calls>>

pipe_vars == <<burrows_wheeler_data, move_to_front_data, output, all_data,
               un_move_to_front_data, un_burrows_wheeler_data, decompressed>>

vars == <<pc, debug_build, data, rle1_vars, rle2_vars, pipe_vars>>

-----------------------------------------------------------------------------
(* Bounds of the model. *)

\* Every buffer over ByteVals up to this length is an input of the RLE1 round trip.
MaxLen == 5
\* The long runs span up to this many 255-byte flushes.
MaxFlush == 2

-----------------------------------------------------------------------------
(* Helpers. *)

Min(a, b) == IF a <= b THEN a ELSE b

MinOf(S) == CHOOSE x \in S : \A y \in S : x <= y

\* [v; n]
Rep(v, n) == [i \in 1..n |-> v]

\* u8 arithmetic: `as u8` and wrapping addition keep the low 8 bits.
U8(n) == n % 256

\* Result<Vec<u8>, Error> of rle::decode, and the panic a debug build raises.
Ok(v) == [tag |-> "Ok", val |-> v]

RunLengthTruncated == [tag |-> "RunLengthTruncated", val |-> <<>>]

Panic == [tag |-> "Panic", val |-> <<>>]

NotRun == [tag |-> "NotRun", val |-> <<>>]

SeqsUpTo(S, n) == UNION {[1..k -> S] : k \in 0..n}

-----------------------------------------------------------------------------
(* src/rle.rs: first-stage run-length encoding. *)

\* The run length at which encode flushes a run (rle.rs:21).
RunFlush == 255

\* encode_run with the length byte off by one (len - 3).
rle1_encode_run_off_by_one(run, acc) ==
    IF Len(run) <= 3
    THEN [output |-> acc.output \o run, pushed |-> acc.pushed]
    ELSE [output |-> acc.output \o SubSeq(run, 1, 4) \o <<U8(Len(run) - 3)>>,
          pushed |-> Append(acc.pushed, U8(Len(run) - 3))]

\* encode_run: 1..3 bytes are copied; a longer run is 4 literals and (len - 4) as u8.
\* The record carries the output and the length bytes pushed so far.  Its two
\* debug_assert! hold of every slice encode passes: the loop closes a run at the
\* first byte that differs and at 255 bytes.
rle1_encode_run(run, acc) ==
    IF Len(run) <= 3
    THEN [output |-> acc.output \o run, pushed |-> acc.pushed]
    ELSE [output |-> acc.output \o SubSeq(run, 1, 4) \o <<U8(Len(run) - 4)>>,
          pushed |-> Append(acc.pushed, U8(Len(run) - 4))]

\* The test of rle.rs:21 without the flush of a run that has reached 255 bytes.
rle1_closes_no_flush(d, i, run_start) ==
    d[i + 1] # d[run_start + 1]

\* The test of rle.rs:21 at index i of the for loop.
rle1_closes(d, i, run_start) ==
    LET run_length == U8(i - run_start)
    IN  d[i + 1] # d[run_start + 1] \/ run_length = RunFlush

\* The for loop of encode (rle.rs:19-25) from index i on, then the final
\* encode_run.  An iteration whose test fails changes nothing, so the loop is
\* taken from one iteration whose test holds to the next.
RECURSIVE rle1_encode_loop(_, _, _, _)
rle1_encode_loop(d, i, run_start, acc) ==
    LET closing == {j \in i..(Len(d) - 1) : rle1_closes(d, j, run_start)}
    IN  IF closing = {}
        THEN rle1_encode_run(SubSeq(d, run_start + 1, Len(d)), acc)
        ELSE LET j == MinOf(closing)
             IN  rle1_encode_loop(d, j + 1, j,
                                  rle1_encode_run(SubSeq(d, run_start + 1, j), acc))

rle1_encode(d) ==
    IF d = <<>>
    THEN [output |-> <<>>, pushed |-> <<>>]
    ELSE rle1_encode_loop(d, 0, 0, [output |-> <<>>, pushed |-> <<>>])

\* get_run: the next run unit of a nonempty slice, or the truncation error.
get_run(d) ==
    LET length == Min(Len(d) - 1, 3)
        differ == {i \in 1..length : d[i + 1] # d[1] /\ i # 4}
    IN  IF differ # {}
        THEN Ok(SubSeq(d, 1, MinOf(differ)))
        ELSE IF Len(d) = 4
             THEN RunLengthTruncated
             ELSE Ok(SubSeq(d, 1, Min(Len(d), 5)))

\* decode_run that emits the length byte's count without the 4 literals.
rle1_decode_run_no_literals(run, out, checks) ==
    IF Len(run) < 4
    THEN Ok(out \o run)
    ELSE Ok(out \o Rep(run[1], run[Len(run)]))

\* decode_run: `data[len - 1] + 4` is a u8 addition: past 255 it panics where
\* overflow checks are on and wraps where they are off.
rle1_decode_run(run, out, checks) ==
    IF checks /\ Len(run) \notin {1, 2, 3, 5}
    THEN Panic
    ELSE IF Len(run) < 4
         THEN Ok(out \o run)
         ELSE LET sum == run[Len(run)] + 4
              IN  IF sum > 255 /\ checks
                  THEN Panic
                  ELSE Ok(out \o Rep(run[1], U8(sum)))

\* The while loop of decode (rle.rs:39-43).
RECURSIVE rle1_decode_loop(_, _, _)
rle1_decode_loop(d, out, checks) ==
    IF d = <<>>
    THEN Ok(out)
    ELSE LET run == get_run(d)
         IN  IF run.tag # "Ok"
             THEN run
             ELSE LET next == rle1_decode_run(run.val, out, checks)
                  IN  IF next.tag # "Ok"
                      THEN next
                      ELSE rle1_decode_loop(SubSeq(d, Len(run.val) + 1, Len(d)),
                                            next.val, checks)

rle1_decode(d, checks) ==
    IF d = <<>> THEN Ok(<<>>) ELSE rle1_decode_loop(d, <<>>, checks)

-----------------------------------------------------------------------------
(* src/rle2.rs: second-stage run-length encoding of zero runs. *)

\* enum Symbol (rle2.rs:16-24).  A Symbol is a number outside the byte range, so
\* that no Symbol equals a byte: RunA, RunB, and Byte(v) for each byte v.
RunA == 256

RunB == 257

Byte(v) == 258 + v

IsByte(s) == s >= 258

ByteOf(s) == s - 258

\* usize::ilog2
ilog2(n) == CHOOSE k \in 0..64 : 2 ^ k <= n /\ n < 2 ^ (k + 1)

\* The bitwise ^ and | of two usize values.
RECURSIVE BitXor(_, _)
BitXor(a, b) ==
    IF a = 0 THEN b
    ELSE IF b = 0 THEN a
    ELSE (((a % 2) + (b % 2)) % 2) + 2 * BitXor(a \div 2, b \div 2)

RECURSIVE BitOr(_, _)
BitOr(a, b) ==
    IF a = 0 THEN b
    ELSE IF b = 0 THEN a
    ELSE (IF (a % 2) + (b % 2) > 0 THEN 1 ELSE 0) + 2 * BitOr(a \div 2, b \div 2)

\* encode_run that takes the bits of length, not of length + 1.
rle2_encode_run_no_bias(length) ==
    IF length = 0
    THEN Panic
    ELSE LET repr == length
             num_symbols == ilog2(repr)
             stripped == BitXor(2 ^ num_symbols, repr)
         IN  Ok([i \in 1..num_symbols |->
                    IF (stripped \div 2 ^ (i - 1)) % 2 = 0 THEN RunA ELSE RunB])

\* encode_run: assert!(length != 0), then the bits of length + 1 below its
\* leading bit, least significant first, RunA for 0 and RunB for 1.
rle2_encode_run(length) ==
    IF length = 0
    THEN Panic
    ELSE LET repr == length + 1
             num_symbols == ilog2(repr)
             stripped == BitXor(2 ^ num_symbols, repr)
         IN  Ok([i \in 1..num_symbols |->
                    IF (stripped \div 2 ^ (i - 1)) % 2 = 0 THEN RunA ELSE RunB])

\* The loop of decode_run (rle2.rs:114-122) over run[1..i], last symbol first;
\* a Byte symbol is the unreachable!() branch.
RECURSIVE rle2_decode_bits(_, _, _)
rle2_decode_bits(run, i, repr) ==
    IF i = 0 THEN Ok(repr)
    ELSE IF run[i] = RunA THEN rle2_decode_bits(run, i - 1, repr * 2)
    ELSE IF run[i] = RunB THEN rle2_decode_bits(run, i - 1, BitOr(repr * 2, 1))
    ELSE Panic

\* decode_run that reads the symbols first to last.
rle2_decode_run_forward(run) ==
    IF run = <<>>
    THEN Panic
    ELSE LET rev == [i \in 1..Len(run) |-> run[Len(run) + 1 - i]]
             repr == rle2_decode_bits(rev, Len(rev), 0)
         IN  IF repr.tag # "Ok"
             THEN Panic
             ELSE Ok(Rep(0, BitOr(2 ^ Len(run), repr.val) - 1))

\* decode_run: assert!(!run.is_empty()), then ((1 << len) | repr) - 1 zero bytes.
\* The shift stays inside usize for the runs of fewer than 64 Symbols met here.
rle2_decode_run(run) ==
    IF run = <<>>
    THEN Panic
    ELSE LET repr == rle2_decode_bits(run, Len(run), 0)
         IN  IF repr.tag # "Ok"
             THEN Panic
             ELSE Ok(Rep(0, BitOr(2 ^ Len(run), repr.val) - 1))

\* get_symbols whose search for the first nonzero byte skips the byte it starts
\* at and counts from the one after it.
get_symbols_skip_first(input) ==
    IF input = <<>>
    THEN [symbols |-> Panic, rest |-> <<>>, calls |-> <<>>]
    ELSE IF input[1] # 0
    THEN [symbols |-> Ok(<<Byte(input[1])>>), rest |-> Tail(input), calls |-> <<>>]
    ELSE LET nonzero == {i \in 0..(Len(input) - 2) : input[i + 2] # 0}
             length == IF nonzero # {} THEN MinOf(nonzero) ELSE Len(input)
         IN  [symbols |-> rle2_encode_run(length),
              rest |-> SubSeq(input, (IF length = 0 THEN 1 ELSE length) + 1, Len(input)),
              calls |-> <<length>>]

\* get_symbols: assert!(!input.is_empty()), then the Symbols of the head of the
\* slice, the rest of the slice, and the encode_run call it made.
get_symbols(input) ==
    IF input = <<>>
    THEN [symbols |-> Panic, rest |-> <<>>, calls |-> <<>>]
    ELSE IF input[1] # 0
    THEN [symbols |-> Ok(<<Byte(input[1])>>), rest |-> Tail(input), calls |-> <<>>]
    ELSE LET nonzero == {i \in 0..(Len(input) - 1) : input[i + 1] # 0}
             length == IF nonzero # {} THEN MinOf(nonzero) ELSE Len(input)
         IN  [symbols |-> rle2_encode_run(length),
              rest |-> SubSeq(input, length + 1, Len(input)),
              calls |-> <<length>>]

\* get_bytes: assert!(!input.is_empty()), then the bytes of the head of the
\* slice, the rest of the slice, and the decode_run call it made.
get_bytes(input) ==
    IF input = <<>>
    THEN [bytes |-> Panic, rest |-> <<>>, calls |-> <<>>]
    ELSE IF IsByte(input[1])
    THEN [bytes |-> Ok(<<ByteOf(input[1])>>), rest |-> Tail(input), calls |-> <<>>]
    ELSE LET first_byte == {i \in 0..(Len(input) - 1) : IsByte(input[i + 1])}
             length == IF first_byte # {} THEN MinOf(first_byte) ELSE Len(input)
         IN  [bytes |-> rle2_decode_run(SubSeq(input, 1, length)),
              rest |-> SubSeq(input, length + 1, Len(input)),
              calls |-> <<SubSeq(input, 1, length)>>]

\* The while loop of encode (rle2.rs:29-33); a panic ends it.
RECURSIVE rle2_encode_loop(_, _, _)
rle2_encode_loop(d, out, calls) ==
    IF d = <<>>
    THEN [result |-> Ok(out), calls |-> calls]
    ELSE LET got == get_symbols(d)
         IN  IF got.symbols.tag # "Ok"
             THEN [result |-> Panic, calls |-> calls \o got.calls]
             ELSE rle2_encode_loop(got.rest, out \o got.symbols.val, calls \o got.calls)

rle2_encode(d) == rle2_encode_loop(d, <<>>, <<>>)

\* The while loop of decode (rle2.rs:40-44); a panic ends it.
RECURSIVE rle2_decode_loop(_, _, _)
rle2_decode_loop(d, out, calls) ==
    IF d = <<>>
    THEN [result |-> Ok(out), calls |-> calls]
    ELSE LET got == get_bytes(d)
         IN  IF got.bytes.tag # "Ok"
             THEN [result |-> Panic, calls |-> calls \o got.calls]
             ELSE rle2_decode_loop(got.rest, out \o got.bytes.val, calls \o got.calls)

rle2_decode(d) == rle2_decode_loop(d, <<>>, <<>>)

-----------------------------------------------------------------------------
(* Callers of RLE2: a round trip from a byte buffer, and a decode of a       *)
(* Symbol sequence that need not come from encode.                           *)

\* Every buffer over Rle2Vals up to this length is an input of rle2::encode.
MaxLen2 == 5
\* The longest run of zero bytes among the inputs of rle2::encode.
MaxZeros == 17
\* Every Symbol sequence over SymbolVals up to this length is an input of rle2::decode.
MaxSyms == 5

Rle2Vals == {0, 1, 255}

ZeroPads == {<<>>, <<1>>, <<255>>}

Rle2Inputs ==
    SeqsUpTo(Rle2Vals, MaxLen2)
    \cup {p \o Rep(0, n) \o s : p \in ZeroPads, s \in ZeroPads, n \in 1..MaxZeros}

SymbolVals == {RunA, RunB, Byte(0), Byte(1)}

SymbolInputs == SeqsUpTo(SymbolVals, MaxSyms)

PipeIdle ==
    /\ burrows_wheeler_data = <<>>
    /\ move_to_front_data = <<>>
    /\ output = <<>>
    /\ all_data = <<>>
    /\ un_move_to_front_data = <<>>
    /\ un_burrows_wheeler_data = NotRun
    /\ decompressed = NotRun

Rle1Idle ==
    /\ rle_data = <<>>
    /\ length_bytes = <<>>
    /\ un_rle_data = NotRun

Rle2Idle ==
    /\ rle2_data = <<>>
    /\ encode_run_calls = <<>>
    /\ un_rle2 = NotRun
    /\ decode_run_calls = <<>>

InitRle2 ==
    /\ debug_build \in BOOLEAN
    /\ Rle1Idle
    /\ PipeIdle
    /\ encode_run_calls = <<>>
    /\ un_rle2 = NotRun
    /\ decode_run_calls = <<>>
    /\ \/ pc = "start" /\ data \in Rle2Inputs /\ rle2_data = <<>>
       \/ pc = "received" /\ data = <<>> /\ rle2_data \in SymbolInputs

\* rle2::encode(&data); a panic leaves no Symbols.
Rle2Encode ==
    /\ pc = "start"
    /\ LET r == rle2_encode(data)
       IN  /\ rle2_data' = r.result.val
           /\ encode_run_calls' = r.calls
           /\ pc' = IF r.result.tag = "Ok" THEN "encoded" ELSE "panicked"
    /\ UNCHANGED <<debug_build, data, rle1_vars, un_rle2, decode_run_calls, pipe_vars>>

\* rle2::decode(&encoded)
Rle2Decode ==
    /\ pc = "encoded"
    /\ LET r == rle2_decode(rle2_data)
       IN  /\ un_rle2' = r.result
           /\ decode_run_calls' = r.calls
    /\ pc' = "decoded"
    /\ UNCHANGED <<debug_build, data, rle1_vars, rle2_data, encode_run_calls, pipe_vars>>

\* rle2::decode(&symbols) on Symbols from elsewhere.
Rle2DecodeAny ==
    /\ pc = "received"
    /\ LET r == rle2_decode(rle2_data)
       IN  /\ un_rle2' = r.result
           /\ decode_run_calls' = r.calls
    /\ pc' = "decoded_any"
    /\ UNCHANGED <<debug_build, data, rle1_vars, rle2_data, encode_run_calls, pipe_vars>>

NextRle2 == Rle2Encode \/ Rle2Decode \/ Rle2DecodeAny

SpecRle2 == InitRle2 /\ [][NextRle2]_vars

-----------------------------------------------------------------------------
(* move_to_front and burrows_wheeler: lib.rs calls them; their code is not   *)
(* among the sources, so they follow the design's sections 4.2 and 4.3.      *)

\* The list of the 256 byte values in ascending order.
MtfInitial == [i \in 1..256 |-> i - 1]

\* The list with the entry at position pos (from 0) moved to the front.
MtfMoveToFront(list, pos) ==
    [i \in 1..256 |-> IF i = 1 THEN list[pos + 1]
                      ELSE IF i <= pos + 1 THEN list[i - 1] ELSE list[i]]

\* The position (from 0) of byte b in the list.
MtfPosition(list, b) == (CHOOSE i \in 1..256 : list[i] = b) - 1

RECURSIVE move_to_front_encode_loop(_, _, _)
move_to_front_encode_loop(d, list, out) ==
    IF d = <<>>
    THEN out
    ELSE LET pos == MtfPosition(list, d[1])
         IN  move_to_front_encode_loop(Tail(d), MtfMoveToFront(list, pos),
                                       Append(out, pos))

move_to_front_encode(d) == move_to_front_encode_loop(d, MtfInitial, <<>>)

RECURSIVE move_to_front_decode_loop(_, _, _)
move_to_front_decode_loop(d, list, out) ==
    IF d = <<>>
    THEN out
    ELSE move_to_front_decode_loop(Tail(d), MtfMoveToFront(list, d[1]),
                                   Append(out, list[d[1] + 1]))

move_to_front_decode(d) == move_to_front_decode_loop(d, MtfInitial, <<>>)

\* The cyclic rotation of x that starts at offset s (from 0).
Rotation(x, s) == [i \in 1..Len(x) |-> x[((s + i - 1) % Len(x)) + 1]]

\* Lexicographic order of two buffers of one length.
LexLess(a, b) ==
    \E k \in 1..Len(a) : a[k] < b[k] /\ \A j \in 1..(k - 1) : a[j] = b[j]

\* Rotation s sorts before rotation t: by content, equal rotations by offset.
RotationBefore(x, s, t) ==
    \/ LexLess(Rotation(x, s), Rotation(x, t))
    \/ Rotation(x, s) = Rotation(x, t) /\ s < t

\* The rank (from 0) of rotation s among the sorted rotations.
RotationRank(x, s) == Cardinality({t \in 0..(Len(x) - 1) : RotationBefore(x, t, s)})

\* The primary index as four bytes, most significant first, and back.
IndexBytes(p) == <<(p \div 16777216) % 256, (p \div 65536) % 256, (p \div 256) % 256, p % 256>>

IndexOf(h) == ((h[1] * 256 + h[2]) * 256 + h[3]) * 256 + h[4]

\* The last column of the sorted rotations, behind the primary index.  lib.rs
\* hands the result on as one byte slice, so the index travels in the buffer.
burrows_wheeler_encode(x) ==
    IF x = <<>>
    THEN <<>>
    ELSE LET n == Len(x)
             at(r) == CHOOSE s \in 0..(n - 1) : RotationRank(x, s) = r
         IN  IndexBytes(RotationRank(x, 0))
             \o [r \in 1..n |-> x[((at(r - 1) + n - 1) % n) + 1]]

BurrowsWheelerDecode == [tag |-> "BurrowsWheelerDecode", val |-> <<>>]

\* The row (from 0) of the first column that position i (from 0) of the last
\* column L corresponds to: the bytes below L[i], and the equal bytes before i.
LastToFirst(L, i) ==
    Cardinality({k \in 1..Len(L) : L[k] < L[i + 1]})
    + Cardinality({k \in 1..i : L[k] = L[i + 1]})

\* The chain from row pos, k bytes long: each step goes to the position of L
\* that the row's first byte is, and collects it.
RECURSIVE BwtWalk(_, _, _, _)
BwtWalk(L, pos, k, out) ==
    IF k = 0
    THEN out
    ELSE LET next == CHOOSE i \in 0..(Len(L) - 1) : LastToFirst(L, i) = pos
         IN  BwtWalk(L, next, k - 1, Append(out, L[next + 1]))

\* The inverse transform; a buffer with no room for the index and one byte, or
\* an index outside 0..n-1, is rejected.
burrows_wheeler_decode(d) ==
    IF d = <<>>
    THEN Ok(<<>>)
    ELSE IF Len(d) <= 4
         THEN BurrowsWheelerDecode
         ELSE LET p == IndexOf(SubSeq(d, 1, 4))
                  L == SubSeq(d, 5, Len(d))
              IN  IF p >= Len(L)
                  THEN BurrowsWheelerDecode
                  ELSE Ok(BwtWalk(L, p, Len(L), <<>>))

-----------------------------------------------------------------------------
(* src/lib.rs: compress and decompress. *)

RunLengthDecode == [tag |-> "RunLengthDecode", val |-> <<>>]

\* compress that returns the buffer of the stage before the last one it uses.
compress_wrong_buffer(d) ==
    LET rle == rle1_encode(d)
        bw == burrows_wheeler_encode(rle.output)
        mtf == move_to_front_encode(bw)
        rle2 == rle2_encode(mtf)
    IN  [rle_data |-> rle.output, length_bytes |-> rle.pushed,
         burrows_wheeler_data |-> bw, move_to_front_data |-> mtf,
         rle2_data |-> rle2.result.val, encode_run_calls |-> rle2.calls,
         output |-> bw]

\* compress (lib.rs:65-76): the locals it computes and the buffer it returns.
compress(d) ==
    LET rle == rle1_encode(d)
        bw == burrows_wheeler_encode(rle.output)
        mtf == move_to_front_encode(bw)
        rle2 == rle2_encode(mtf)
    IN  [rle_data |-> rle.output, length_bytes |-> rle.pushed,
         burrows_wheeler_data |-> bw, move_to_front_data |-> mtf,
         rle2_data |-> rle2.result.val, encode_run_calls |-> rle2.calls,
         output |-> mtf]

\* decompress (lib.rs:88-99): rle2::decode gets the empty slice, the other
\* stages get the bytes read; `?` returns the first stage's error.
decompress(d, checks) ==
    LET un_rle2_ == rle2_decode(<<>>)
        un_mtf == move_to_front_decode(d)
        un_bw == burrows_wheeler_decode(un_mtf)
        un_rle == IF un_bw.tag = "Ok" THEN rle1_decode(un_bw.val, checks) ELSE NotRun
    IN  [un_rle2 |-> un_rle2_.result, decode_run_calls |-> un_rle2_.calls,
         un_move_to_front_data |-> un_mtf,
         un_burrows_wheeler_data |-> un_bw,
         un_rle_data |-> un_rle,
         returned |-> IF un_bw.tag # "Ok" THEN BurrowsWheelerDecode
                      ELSE IF un_rle.tag = "RunLengthTruncated" THEN RunLengthDecode
                      ELSE un_rle]

\* Every buffer over PipeVals up to this length is an input of compress.
MaxPipeLen == 5

PipeVals == {0, 1, 255}

InitPipeline ==
    /\ pc = "start"
    /\ debug_build \in BOOLEAN
    /\ data \in SeqsUpTo(PipeVals, MaxPipeLen)
    /\ Rle1Idle
    /\ Rle2Idle
    /\ PipeIdle

Compress ==
    /\ pc = "start"
    /\ LET c == compress(data)
       IN  /\ rle_data' = c.rle_data
           /\ length_bytes' = c.length_bytes
           /\ burrows_wheeler_data' = c.burrows_wheeler_data
           /\ move_to_front_data' = c.move_to_front_data
           /\ rle2_data' = c.rle2_data
           /\ encode_run_calls' = c.encode_run_calls
           /\ output' = c.output
    /\ pc' = "compressed"
    /\ UNCHANGED <<debug_build, data, un_rle_data, un_rle2, decode_run_calls, all_data,
                   un_move_to_front_data, un_burrows_wheeler_data, decompressed>>

\* decompress on a reader over what compress returned.
Decompress ==
    /\ pc = "compressed"
    /\ all_data' = output
    /\ LET u == decompress(output, debug_build)
       IN  /\ un_rle2' = u.un_rle2
           /\ decode_run_calls' = u.decode_run_calls
           /\ un_move_to_front_data' = u.un_move_to_front_data
           /\ un_burrows_wheeler_data' = u.un_burrows_wheeler_data
           /\ un_rle_data' = u.un_rle_data
           /\ decompressed' = u.returned
    /\ pc' = "decompressed"
    /\ UNCHANGED <<debug_build, data, rle_data, length_bytes, rle2_data, encode_run_calls,
                   burrows_wheeler_data, move_to_front_data, output>>

NextPipeline == Compress \/ Decompress

SpecPipeline == InitPipeline /\ [][NextPipeline]_vars

-----------------------------------------------------------------------------
(* Inputs of the RLE1 checks. *)

\* 0 and 1 can equal a length byte of a short run, 251 the length byte of a
\* flushed run; 101 is the byte of the source's own tests (b'e').
ByteVals == {0, 1, 101, 251}

ShortVals == {0, 1, 101}

\* Runs around every flush boundary: k * 255 - 1 .. k * 255 + 6.
LongLens == {k * RunFlush + e : k \in 1..MaxFlush, e \in (0 - 1)..6}

Pads == {<<>>} \cup {<<v>> : v \in ShortVals}

LongInputs == {p \o Rep(v, n) \o s : p \in Pads, s \in Pads, v \in ByteVals, n \in LongLens}

Rle1Inputs == SeqsUpTo(ShortVals, MaxLen) \cup LongInputs

-----------------------------------------------------------------------------
(* The RLE1 round trip: a caller encodes a buffer, then decodes the result. *)

InitRle1 ==
    /\ pc = "start"
    /\ debug_build \in BOOLEAN
    /\ data \in Rle1Inputs
    /\ rle_data = <<>>
    /\ length_bytes = <<>>
    /\ un_rle_data = NotRun
    /\ Rle2Idle
    /\ PipeIdle

Rle1Encode ==
    /\ pc = "start"
    /\ LET r == rle1_encode(data)
       IN  /\ rle_data' = r.output
           /\ length_bytes' = r.pushed
    /\ pc' = "encoded"
    /\ UNCHANGED <<debug_build, data, un_rle_data, rle2_vars, pipe_vars>>

Rle1Decode ==
    /\ pc = "encoded"
    /\ un_rle_data' = rle1_decode(rle_data, debug_build)
    /\ pc' = "decoded"
    /\ UNCHANGED <<debug_build, data, rle_data, length_bytes, rle2_vars, pipe_vars>>

NextRle1 == Rle1Encode \/ Rle1Decode

SpecRle1 == InitRle1 /\ [][NextRle1]_vars

-----------------------------------------------------------------------------
(* rle::decode on a buffer that need not come from rle::encode. *)

\* Every buffer over DecodeVals up to this length is an input of rle::decode.
MaxDecLen == 7

\* b"abc": the bytes of the source's decode tests.
DecodeVals == {97, 98, 99}

\* A unit of four equal bytes and any length byte, alone or between other bytes.
UnitInputs ==
    {p \o <<v, v, v, v, k>> \o s : p \in Pads, s \in Pads, v \in ByteVals, k \in 0..255}

DecodeInputs == SeqsUpTo(DecodeVals, MaxDecLen) \cup UnitInputs

InitRle1Decode ==
    /\ pc = "received"
    /\ debug_build \in BOOLEAN
    /\ data = <<>>
    /\ rle_data \in DecodeInputs
    /\ length_bytes = <<>>
    /\ un_rle_data = NotRun
    /\ Rle2Idle
    /\ PipeIdle

Rle1DecodeAny ==
    /\ pc = "received"
    /\ un_rle_data' = rle1_decode(rle_data, debug_build)
    /\ pc' = "decoded"
    /\ UNCHANGED <<debug_build, data, rle_data, length_bytes, rle2_vars, pipe_vars>>

NextRle1Decode == Rle1DecodeAny

SpecRle1Decode == InitRle1Decode /\ [][NextRle1Decode]_vars

-----------------------------------------------------------------------------
(* Claims about the pipeline. *)

C5_StageOrder ==
    /\ pc \in {"compressed", "decompressed"} =>
           /\ rle_data = rle1_encode(data).output
           /\ burrows_wheeler_data = burrows_wheeler_encode(rle_data)
           /\ move_to_front_data = move_to_front_encode(burrows_wheeler_data)
           /\ rle2_data = rle2_encode(move_to_front_data).result.val
           /\ output = rle2_data
    /\ pc = "decompressed" =>
           /\ un_rle2 = rle2_decode(all_data).result
           /\ un_move_to_front_data = move_to_front_decode(un_rle2.val)
           /\ un_burrows_wheeler_data = burrows_wheeler_decode(un_move_to_front_data)
           /\ un_rle_data = rle1_decode(un_burrows_wheeler_data.val, debug_build)
           /\ decompressed = un_rle_data

-----------------------------------------------------------------------------
(* Claims about RLE2. *)

IsNonZero(b) == b # 0

IsRun(s) == s = RunA \/ s = RunB

\* The lengths of the maximal runs of zero bytes of d, in order.
ZeroRunLengths(d) ==
    LET starts == {i \in 1..Len(d) : d[i] = 0 /\ (i = 1 \/ d[i - 1] # 0)}
        nth(k) == CHOOSE s \in starts : Cardinality({t \in starts : t < s}) = k - 1
        last(s) == MinOf({j \in s..Len(d) : j = Len(d) \/ d[j + 1] # 0})
    IN  [k \in 1..Cardinality(starts) |-> last(nth(k)) - nth(k) + 1]

\* C2: RLE2 round trip: decoding what encode produced returns the buffer that
\* was encoded; encode_run is called once per maximal run of zero bytes, with
\* its length, every nonzero byte v becomes Byte(v), and decode_run is called
\* on exactly the Symbols each encode_run call produced.
C2_Rle2RoundTrip ==
    /\ pc \in {"encoded", "decoded"} =>
           /\ encode_run_calls = ZeroRunLengths(data)
           /\ SelectSeq(rle2_data, IsByte)
                  = [i \in 1..Len(SelectSeq(data, IsNonZero)) |->
                        Byte(SelectSeq(data, IsNonZero)[i])]
    /\ pc = "decoded" =>
           /\ un_rle2 = Ok(data)
           /\ decode_run_calls
                  = [i \in 1..Len(encode_run_calls) |->
                        rle2_encode_run(encode_run_calls[i]).val]

\* C2's case: two runs of zero bytes around a nonzero byte, decoded back.
C2_Witness ==
    /\ pc = "decoded"
    /\ data = <<0, 0, 255, 0, 0>>
    /\ rle2_data = <<RunB, Byte(255), RunB>>
    /\ un_rle2 = Ok(data)

\* C7 as stated: encode_run(15) is [RunB, RunA, RunA, RunA], which decode_run
\* turns into 15 zero bytes; encode_run(1) is [RunA].
C7_Original ==
    /\ pc = "encoded" =>
           /\ data = Rep(0, 15) => rle2_data = <<RunB, RunA, RunA, RunA>>
           /\ data = <<0>> => rle2_data = <<RunA>>
    /\ pc = "decoded_any" =>
           (rle2_data = <<RunB, RunA, RunA, RunA>> => un_rle2 = Ok(Rep(0, 15)))

\* C7, amended: encode_run(16) is [RunB, RunA, RunA, RunA], which decode_run
\* turns into 16 zero bytes; encode_run(15) is [RunA, RunA, RunA, RunA], which
\* decode_run turns into 15 zero bytes; encode_run(1) is [RunA].
C7_NumeralVectors ==
    /\ pc = "encoded" =>
           /\ data = Rep(0, 16) =>
                  rle2_data = <<RunB, RunA, RunA, RunA>> /\ encode_run_calls = <<16>>
           /\ data = Rep(0, 15) =>
                  rle2_data = <<RunA, RunA, RunA, RunA>> /\ encode_run_calls = <<15>>
           /\ data = <<0>> => rle2_data = <<RunA>> /\ encode_run_calls = <<1>>
    /\ pc = "decoded_any" =>
           /\ rle2_data = <<RunB, RunA, RunA, RunA>> => un_rle2 = Ok(Rep(0, 16))
           /\ rle2_data = <<RunA, RunA, RunA, RunA>> => un_rle2 = Ok(Rep(0, 15))

\* C7's case: 16 zero bytes through encode_run and decode_run.
C7_Witness ==
    /\ pc = "decoded"
    /\ data = Rep(0, 16)
    /\ encode_run_calls = <<16>>
    /\ decode_run_calls = <<<<RunB, RunA, RunA, RunA>>>>
    /\ un_rle2 = Ok(Rep(0, 16))

\* C10: no assertion and no unreachable!() of RLE2 is hit: every encode_run
\* call has a length of at least 1, and every decode_run call, also for Symbols
\* with Byte(0) or Symbols that encode never produces, gets a nonempty slice of
\* RunA and RunB only.
C10_RunPreconditions ==
    /\ pc # "panicked"
    /\ \A i \in 1..Len(encode_run_calls) : encode_run_calls[i] >= 1
    /\ pc \in {"decoded", "decoded_any"} => un_rle2.tag = "Ok"
    /\ \A i \in 1..Len(decode_run_calls) :
           /\ decode_run_calls[i] # <<>>
           /\ \A j \in 1..Len(decode_run_calls[i]) : IsRun(decode_run_calls[i][j])

\* C10's case: Symbols that encode never produces, Byte(0) on both sides of a run.
C10_Witness ==
    /\ pc = "decoded_any"
    /\ rle2_data = <<Byte(0), RunA, RunB, Byte(0)>>
    /\ decode_run_calls = <<<<RunA, RunB>>>>
    /\ un_rle2 = Ok(Rep(0, 7))

-----------------------------------------------------------------------------
(* Claims about RLE1. *)

\* C1: RLE1 round trip: decoding what encode produced returns Ok of the buffer
\* that was encoded, for the empty buffer, for runs longer than 255 bytes and
\* for runs whose length byte equals the run's byte; never the truncation error.
C1_Rle1RoundTrip == pc = "decoded" => un_rle_data = Ok(data)

\* C1's case: a run of 510 bytes 251 is flushed twice, each time with length byte 251.
C1_Witness ==
    /\ pc = "decoded"
    /\ data = Rep(251, 510)
    /\ rle_data = Rep(251, 10)
    /\ un_rle_data = Ok(data)

\* Whether, consuming run units left to right, a unit boundary is reached where
\* what remains is exactly four identical bytes.  A unit is four equal bytes and
\* a length byte, or else the 1 to 3 equal bytes the buffer goes on with.
RECURSIVE TruncatedAtBoundary(_)
TruncatedAtBoundary(d) ==
    IF d = <<>>
    THEN FALSE
    ELSE IF Len(d) >= 4 /\ \A i \in 2..4 : d[i] = d[1]
         THEN Len(d) = 4 \/ TruncatedAtBoundary(SubSeq(d, 6, Len(d)))
         ELSE LET same == {n \in 1..Min(Len(d), 3) : \A i \in 1..n : d[i] = d[1]}
                  n == CHOOSE m \in same : \A o \in same : o <= m
              IN  TruncatedAtBoundary(SubSeq(d, n + 1, Len(d)))

\* C4: rle::decode returns Err(RunLengthTruncated) exactly when a unit boundary
\* leaves four identical bytes with no length byte, and Ok for every other
\* buffer; b"abbcccc" fails and b"abbccc" decodes to itself.
C4_TruncationOnlyFailure ==
    pc = "decoded" =>
        /\ un_rle_data = RunLengthTruncated <=> TruncatedAtBoundary(rle_data)
        /\ ~TruncatedAtBoundary(rle_data) => un_rle_data.tag = "Ok"
        /\ rle_data = <<97, 98, 98, 99, 99, 99, 99>> => un_rle_data = RunLengthTruncated
        /\ rle_data = <<97, 98, 98, 99, 99, 99>> => un_rle_data = Ok(rle_data)

\* C6 as stated: a run of 259 equal bytes is one encoded run with length byte
\* 255, and a run of 260 is that run followed by one literal byte.
C6_Original ==
    pc = "encoded" =>
        \A v \in ByteVals :
            /\ data = Rep(v, 259) => rle_data = Rep(v, 4) \o <<255>>
            /\ data = Rep(v, 260) => rle_data = Rep(v, 4) \o <<255>> \o <<v>>

\* C6, amended: a run of 255 equal bytes is the longest run encoded as one unit
\* (4 literals and length byte 251); a run of 259 is the 255-byte run followed by
\* a 4-byte run (4 literals and length byte 0), a run of 260 the 255-byte run
\* followed by a 5-byte run (4 literals and length byte 1).
C6_LongestSingleRun ==
    pc = "encoded" =>
        \A v \in ByteVals :
            /\ data = Rep(v, 255) => rle_data = Rep(v, 4) \o <<251>>
            /\ data = Rep(v, 259) => rle_data = Rep(v, 4) \o <<251>> \o Rep(v, 4) \o <<0>>
            /\ data = Rep(v, 260) => rle_data = Rep(v, 4) \o <<251>> \o Rep(v, 4) \o <<1>>

\* C6's case: 260 equal bytes, encoded as a 255-byte run and a 5-byte run.
C6_Witness ==
    /\ pc = "encoded"
    /\ data = Rep(1, 260)
    /\ length_bytes = <<251, 1>>

\* The buffers that are one run of more than 255 bytes v between pads that
\* differ from v: the set of <<pad, v, n, pad>> that data is built from.
LongRunsOf(d) ==
    {t \in {<<p, d[Len(p) + 1], Len(d) - Len(p) - Len(s), s>> :
                p \in IF Len(d) > RunFlush THEN Pads ELSE {}, s \in Pads} :
        /\ t[3] > RunFlush
        /\ d = t[1] \o Rep(t[2], t[3]) \o t[4]
        /\ \A i \in 1..Len(t[1]) : t[1][i] # t[2]
        /\ \A i \in 1..Len(t[4]) : t[4][i] # t[2]}

\* C8: encode closes a run when the next byte differs or the run has reached
\* 255 bytes: a run of n > 255 bytes v is emitted as the 255-byte run (4 literals
\* and length byte 251) followed by the encoding of the other n - 255 bytes as a
\* fresh run; 256 and 259 bytes 'e' give the buffers of the source's tests; no
\* length byte that encode emits is above 251.
C8_FlushAt255 ==
    pc = "encoded" =>
        /\ \A t \in LongRunsOf(data) :
               rle_data = t[1] \o Rep(t[2], 4) \o <<251>>
                          \o rle1_encode(Rep(t[2], t[3] - RunFlush)).output \o t[4]
        /\ data = Rep(101, 256) => rle_data = <<101, 101, 101, 101, 251, 101>>
        /\ data = Rep(101, 259) =>
               rle_data = <<101, 101, 101, 101, 251, 101, 101, 101, 101, 0>>
        /\ \A i \in 1..Len(length_bytes) : length_bytes[i] <= 251

\* C8's case: 259 bytes 'e' between two other bytes.
C8_Witness ==
    /\ pc = "encoded"
    /\ data = <<0>> \o Rep(101, 259) \o <<1>>
    /\ rle_data = <<0, 101, 101, 101, 101, 251, 101, 101, 101, 101, 0, 1>>
    /\ LongRunsOf(data) # {}

\* C9: decoding the unit (v, v, v, v, k) emits exactly 4 + k copies of v for
\* every length byte k in 0..255, with no overflow of the 8-bit sum.
C9_LengthByteRange ==
    pc = "decoded" =>
        \A v \in ByteVals, k \in 0..255 :
            rle_data = <<v, v, v, v, k>> => un_rle_data = Ok(Rep(v, 4 + k))

=============================================================================
